---- MODULE Spec2Model ----
(***************************************************************************)
(* Model of debug_main.py: the pairwise loss-prediction loss, the epoch    *)
(* loop of train/train_epoch, and the trial/cycle loop of __main__ that    *)
(* owns the labeled and unlabeled index lists.                             *)
(*                                                                         *)
(* Sequences are 1-based here and 0-based in Python: position p of a       *)
(* Python list is position p+1 of the sequence that models it.  Dataset    *)
(* indices keep their Python values 0..NUM_TRAIN-1.                        *)
(***************************************************************************)
EXTENDS Integers, Sequences, FiniteSets, TLC

(***************************************************************************)
(* Sizes of the model.  The configuration values come from debug_config    *)
(* (imported at debug_main.py:33), which is scaled down here.              *)
(***************************************************************************)
NUM_TRAIN == 4
INITIALQUERY == 1
MaxAddendum == 2
MaxSubset == 3
CYCLES == 2
TRIALS == 2
EPOCH == 2
MILESTONE0 == 1
EPOCHL == 0
BATCH == 1
MaxScore == 2
MaxBatchLen == 4
MaxVal == 1
MaxMargin == 2
MaxEpoch == 4

\* the stride of the plotting call, debug_main.py:170
PLOT_STRIDE == 10

None == "None"

----------------------------------------------------------------------------
(* Python list and tensor helpers *)

Min2(a, b) == IF a < b THEN a ELSE b
Max2(a, b) == IF a > b THEN a ELSE b

\* a Python slice bound i normalised against a list of length n
PyBound(i, n) == IF i < 0 THEN Max2(i + n, 0) ELSE Min2(i, n)

\* s[a:]
SliceFrom(s, a) == SubSeq(s, PyBound(a, Len(s)) + 1, Len(s))

\* s[:b]
SliceTo(s, b) == SubSeq(s, 1, PyBound(b, Len(s)))

\* tensor.flip(0)
Flip(s) == [i \in 1..Len(s) |-> s[Len(s) + 1 - i]]

\* elementwise a - b of two tensors of one shape
TSub(a, b) == [i \in 1..Len(a) |-> a[i] - b[i]]

\* torch.clamp(x, min=lo) on one element
ClampMin(x, lo) == IF x < lo THEN lo ELSE x

\* torch.sign on one element
Sign(x) == IF x > 0 THEN 1 ELSE IF x < 0 THEN -1 ELSE 0

RECURSIVE SumSeq(_)
SumSeq(s) == IF Len(s) = 0 THEN 0 ELSE s[1] + SumSeq(Tail(s))

Range(s) == {s[i] : i \in 1..Len(s)}

Perms(S) == {p \in [1..Cardinality(S) -> S] : \A x \in S : \E i \in 1..Cardinality(S) : p[i] = x}

\* tensor[arg]: fancy indexing by a sequence of positions
Gather(s, arg) == [i \in 1..Len(arg) |-> s[arg[i]]]

----------------------------------------------------------------------------
(* LossPredLoss, debug_main.py:59-77 *)

\* the assertion of line 60
EvenBatchOff(input) == TRUE
EvenBatch(input) == Len(input) % 2 = 0

\* lines 63-64: (x - x.flip(0))[:len(x)//2]
HalfDiff(x) == SliceTo(TSub(x, Flip(x)), Len(x) \div 2)

\* line 67: one = 2 * sign(clamp(target, min=0)) - 1, per element
OneNoClamp(t) == 2 * Sign(t) - 1
One(t) == 2 * Sign(ClampMin(t, 0)) - 1

\* lines 70 and 73: clamp(margin - one * input, min=0), per pair
PairLosses(input, target, margin) ==
    LET di == HalfDiff(input)
        dt == HalfDiff(target)
    IN [i \in 1..Len(di) |-> ClampMin(margin - One(dt[i]) * di[i], 0)]

\* The call as a whole.  The value of a 'mean' call is the exact fraction
\* <<numerator, denominator>>, the denominator being input.size(0) after the
\* halving; an empty batch gives <<0, 0>>, the 0/0 torch evaluates to nan.  The
\* value of a 'none' call is the tensor of per-pair losses.  Any other reduction
\* builds an exception without raising it (line 75), and the return of line 77
\* then reads the unbound name loss.
LossPredLoss(input, target, margin, reduction) ==
    IF ~EvenBatch(input)
    THEN [status |-> "AssertionError", value |-> <<>>]
    ELSE LET pl == PairLosses(input, target, margin) IN
         IF reduction = "mean"
         THEN [status |-> "ok", value |-> <<SumSeq(pl), Len(pl)>>]
         ELSE IF reduction = "none"
         THEN [status |-> "ok", value |-> pl]
         ELSE [status |-> "UnboundLocalError", value |-> <<>>]

----------------------------------------------------------------------------
(* train_epoch and train, debug_main.py:85-198 and 221-246 *)

\* the batches DataLoader(batch_size=BATCH, sampler over L indices) yields
NumBatches(L) == (L + BATCH - 1) \div BATCH
BatchSize(L, k) == Min2(BATCH, L - (k - 1) * BATCH)

\* line 102: the features are detached in this epoch
Detach(ep, epoch_loss) == ep > epoch_loss

\* lines 170-198: the plotting call is made after this optimizer step
PlotDue(it, vis) == it % PLOT_STRIDE = 0 /\ vis

\* lines 90-198, the minibatches k.. of one epoch over a loader of L indices:
\* the set of ways the loop can end, as [steps, iters, error].  A batch of odd
\* size fails the assertion of LossPredLoss (line 115) before the optimizers
\* step; vis.line (line 186) is called outside any try block, so an exception
\* of the sink leaves train_epoch.
RECURSIVE Batches(_, _, _, _, _, _)
Batches(steps, it, k, L, aux1, vis) ==
    IF k > NumBatches(L)
    THEN {[steps |-> steps, iters |-> it, error |-> None]}
    ELSE LET z == [i \in 1..BatchSize(L, k) |-> 0] IN
         IF aux1 = "MarginRankingLoss" /\ LossPredLoss(z, z, 1, "mean").status # "ok"
         THEN {[steps |-> steps, iters |-> it + 1, error |-> "AssertionError"]}
         ELSE (IF PlotDue(it + 1, vis)
               THEN {[steps |-> steps + 1, iters |-> it + 1, error |-> "SinkError"]}
               ELSE {})
              \cup Batches(steps + 1, it + 1, k + 1, L, aux1, vis)

\* line 228: the first epoch of range(start_num_epoch, num_epochs)
FirstEpochZero(start_num_epoch) == 0
FirstEpoch(start_num_epoch) == start_num_epoch

\* lines 228-232, one iteration of the loop of train on the context
\* c = [models, schedulers, iters, epoch, error]: train_epoch, then both
\* schedulers step once.
TrainIter(c, L, epoch_loss, aux1, vis) ==
    { [models |-> [c.models EXCEPT
                     !.steps = o.steps,
                     !.epochs = IF o.error = None
                                THEN Append(@, <<c.epoch, Detach(c.epoch, epoch_loss)>>)
                                ELSE @],
       schedulers |-> IF o.error = None
                      THEN [backbone |-> c.schedulers.backbone + 1,
                            module |-> c.schedulers.module + 1]
                      ELSE c.schedulers,
       iters |-> o.iters,
       epoch |-> IF o.error = None THEN c.epoch + 1 ELSE c.epoch,
       error |-> o.error]
      : o \in Batches(c.models.steps, c.iters, 1, L, aux1, vis) }

\* lines 286-301: freshly built models, and schedulers that have not stepped
NewModels(t, cy) == [trial |-> t, cycle |-> cy, steps |-> 0, epochs |-> <<>>]
NoModels == NewModels(-1, -1)
NewSchedulers == [backbone |-> 0, module |-> 0]

----------------------------------------------------------------------------
(* State *)

VARIABLES
    \* __main__
    pc,             \* position of __main__
    args,           \* the command line: [middle_pick, picked_plot, aux1]
    ADDENDUM,       \* debug_config.ADDENDUM
    SubsetSize,         \* debug_config.SUBSET
    trial, cycle,   \* the loop variables of lines 262 and 283
    labeled_set, unlabeled_set,
    models, schedulers,
    iters,          \* the global of line 82
    epoch, num_epochs, \* the loop of train, line 228
    phase,          \* which call of train is running: that of 305/310 or that of 308
    uncertainty, subset, \* what Sampler returned, but for real_loss
    arg,            \* line 318
    saved,          \* the files torch.save has written, oldest first
    error,          \* the exception that ended the program
    \* a call of LossPredLoss on its own
    input, target, margin, reduction, loss,
    \* train over [s, e) once, and over [s, m) then [m, e)
    span, whole, split

ctl == <<pc, args, ADDENDUM, SubsetSize, trial, cycle, labeled_set, unlabeled_set,
         models, schedulers, iters, epoch, num_epochs, phase,
         uncertainty, subset, arg, saved, error>>
lossv == <<input, target, margin, reduction, loss>>
trainv == <<span, whole, split>>
vars == <<ctl, lossv, trainv>>

\* the parts of the state a specification does not use
CtlIdle ==
    /\ pc = "off" /\ args = [middle_pick |-> FALSE, picked_plot |-> FALSE, aux1 |-> None]
    /\ ADDENDUM = 0 /\ SubsetSize = 0 /\ trial = 0 /\ cycle = 0
    /\ labeled_set = <<>> /\ unlabeled_set = <<>>
    /\ models = NoModels /\ schedulers = NewSchedulers
    /\ iters = 0 /\ epoch = 0 /\ num_epochs = 0 /\ phase = 0
    /\ uncertainty = <<>> /\ subset = <<>> /\ arg = <<>>
    /\ saved = <<>> /\ error = None
LossIdle ==
    /\ input = <<>> /\ target = <<>> /\ margin = 0 /\ reduction = None
    /\ loss = [status |-> "off", value |-> <<>>]
TrainIdle ==
    /\ span = [s |-> 0, m |-> 0, e |-> 0, epoch_loss |-> 0, size |-> 0]
    /\ whole = [ctx |-> [models |-> NoModels, schedulers |-> NewSchedulers, iters |-> 0,
                         epoch |-> 0, error |-> None],
                num_epochs |-> 0, call |-> 0, done |-> FALSE]
    /\ split = whole

----------------------------------------------------------------------------
(* __main__, debug_main.py:251-345 *)

\* strategy.sampler.Sampler (called at lines 307 and 312): the subpools it can
\* return for a list of unlabeled indices, each SubsetSize entries of the list drawn
\* without replacement, in the order drawn.
Subpools(unl, size) ==
    { Gather(unl, pos) : pos \in { q \in [1..size -> 1..Len(unl)] :
                                     \A i, j \in 1..size : i # j => q[i] # q[j] } }

\* ... and its failure on a list too short to draw them from
SamplerFails(unl, size) == size > Len(unl)

\* the predicted scores it can return, one per entry of the subpool
Scores == 1..MaxScore

\* line 318, np.argsort(u): the positions of u in ascending order of value.  The
\* default sort is not stable, so equal values may come in either order.
ArgSort(u) ==
    { p \in Perms(1..Len(u)) : \A i \in 1..(Len(u) - 1) : u[p[i]] <= u[p[i + 1]] }

\* lines 328 and 330: list(torch.tensor(subset)[arg][-ADDENDUM:].numpy())
PickedHead(sub, a, addendum) == SliceTo(Gather(sub, a), addendum)
Picked(sub, a, addendum) == SliceFrom(Gather(sub, a), -addendum)

\* line 332: list(torch.tensor(subset)[arg][:-ADDENDUM].numpy()) + unlabeled_set[SUBSET:]
Remaining(sub, a, addendum, unl, size) ==
    SliceTo(Gather(sub, a), -addendum) \o SliceFrom(unl, size)

\* line 345: the file of a trial's checkpoint
CheckpointPathFixed(t) == "active_resnet18_cifar10.pth"
CheckpointPath(t) == <<"active_resnet18_cifar10_trial", t>>

\* lines 340-344: what is written
Checkpoint(t, m) ==
    [path |-> CheckpointPath(t), trial |-> t + 1,
     state_dict_backbone |-> m, state_dict_module |-> m]

\* lines 305 and 310: where the first train call of a cycle stops
FirstStopEpoch(middle_pick) == EPOCH
FirstStop(middle_pick) == IF middle_pick THEN MILESTONE0 ELSE EPOCH

\* the call train(..., start_num_epoch, num_epochs, ...) entered
EnterTrain(start, stop, ph) ==
    /\ epoch' = FirstEpoch(start)
    /\ num_epochs' = stop
    /\ phase' = ph
    /\ pc' = "train"

Config ==
    /\ args \in [middle_pick : BOOLEAN, picked_plot : BOOLEAN,
                 aux1 : {None, "MarginRankingLoss"}]
    /\ ADDENDUM \in 1..MaxAddendum
    /\ SubsetSize \in ADDENDUM..MaxSubset

Init ==
    /\ Config
    /\ pc = "trial" /\ trial = 0 /\ cycle = 0
    /\ labeled_set = <<>> /\ unlabeled_set = <<>>
    /\ models = NoModels /\ schedulers = NewSchedulers
    /\ iters = 0 /\ epoch = 0 /\ num_epochs = 0 /\ phase = 0
    /\ uncertainty = <<>> /\ subset = <<>> /\ arg = <<>>
    /\ saved = <<>> /\ error = None
    /\ LossIdle /\ TrainIdle

\* lines 262-280: the next trial starts with a fresh random split
TrialInit ==
    /\ pc = "trial" /\ trial < TRIALS
    /\ \E indices \in Perms(0..(NUM_TRAIN - 1)) :
         /\ labeled_set' = SliceTo(indices, INITIALQUERY)
         /\ unlabeled_set' = SliceFrom(indices, INITIALQUERY)
    /\ cycle' = 0
    /\ pc' = "cycle"
    /\ UNCHANGED <<args, ADDENDUM, SubsetSize, trial, models, schedulers, iters, epoch,
                   num_epochs, phase, uncertainty, subset, arg, saved, error>>
    /\ UNCHANGED <<lossv, trainv>>

\* lines 283-305/310: a cycle starts with new models and enters its first train.
\* What the last Sampler call and argsort returned is not read again before it is
\* overwritten; the model forgets it here.
CycleStart ==
    /\ pc = "cycle" /\ cycle < CYCLES
    /\ models' = NewModels(trial, cycle)
    /\ schedulers' = NewSchedulers
    /\ EnterTrain(0, FirstStop(args.middle_pick), 1)
    /\ uncertainty' = <<>> /\ subset' = <<>> /\ arg' = <<>>
    /\ UNCHANGED <<args, ADDENDUM, SubsetSize, trial, cycle, labeled_set, unlabeled_set,
                   iters, saved, error>>
    /\ UNCHANGED <<lossv, trainv>>

\* lines 228-232: one epoch of the running train call.  The loader of
\* dataloaders['train'] samples from labeled_set.  An exception leaves
\* train_epoch, train and __main__, none of which catches it.
TrainEpoch ==
    /\ pc = "train" /\ epoch < num_epochs
    /\ \E n \in TrainIter([models |-> models, schedulers |-> schedulers, iters |-> iters,
                           epoch |-> epoch, error |-> None],
                          Len(labeled_set), EPOCHL, args.aux1, TRUE) :
         /\ models' = n.models
         /\ schedulers' = n.schedulers
         /\ iters' = n.iters
         /\ epoch' = n.epoch
         /\ error' = n.error
         /\ pc' = IF n.error = None THEN "train" ELSE "aborted"
    /\ UNCHANGED <<args, ADDENDUM, SubsetSize, trial, cycle, labeled_set, unlabeled_set,
                   num_epochs, phase, uncertainty, subset, arg, saved>>
    /\ UNCHANGED <<lossv, trainv>>

\* line 246: train returns, to line 306/311 or to line 314
TrainReturn ==
    /\ pc = "train" /\ epoch >= num_epochs
    /\ pc' = IF phase = 1 THEN "sample" ELSE "acquire"
    /\ UNCHANGED <<args, ADDENDUM, SubsetSize, trial, cycle, labeled_set, unlabeled_set,
                   models, schedulers, iters, epoch, num_epochs, phase,
                   uncertainty, subset, arg, saved, error>>
    /\ UNCHANGED <<lossv, trainv>>

\* lines 307-308 and 312: the Sampler call, which fails on a list shorter than
\* SubsetSize; __main__ does not catch the exception.  In middle_pick mode the second
\* train call follows.
Sample ==
    /\ pc = "sample"
    /\ IF SamplerFails(unlabeled_set, SubsetSize)
       THEN /\ error' = "InsufficientPoolError"
            /\ pc' = "aborted"
            /\ UNCHANGED <<uncertainty, subset, epoch, num_epochs, phase>>
       ELSE /\ subset' \in Subpools(unlabeled_set, SubsetSize)
            /\ uncertainty' \in [1..SubsetSize -> Scores]
            /\ error' = error
            /\ IF args.middle_pick
               THEN EnterTrain(MILESTONE0, EPOCH, 2)
               ELSE pc' = "acquire" /\ UNCHANGED <<epoch, num_epochs, phase>>
    /\ UNCHANGED <<args, ADDENDUM, SubsetSize, trial, cycle, labeled_set, unlabeled_set,
                   models, schedulers, iters, arg, saved>>
    /\ UNCHANGED <<lossv, trainv>>

\* lines 314-337: test, argsort, then either the plot and sys.exit of lines
\* 321-325 or the update of both lists and of the training loader
Acquire ==
    /\ pc = "acquire"
    /\ arg' \in ArgSort(uncertainty)
    /\ IF args.picked_plot
       THEN /\ pc' = "exited"
            /\ UNCHANGED <<labeled_set, unlabeled_set, cycle>>
       ELSE /\ labeled_set' = labeled_set \o Picked(subset, arg', ADDENDUM)
            /\ unlabeled_set' = Remaining(subset, arg', ADDENDUM, unlabeled_set, SubsetSize)
            /\ cycle' = cycle + 1
            /\ pc' = "cycle"
    /\ UNCHANGED <<args, ADDENDUM, SubsetSize, trial, models, schedulers, iters, epoch,
                   num_epochs, phase, uncertainty, subset, saved, error>>
    /\ UNCHANGED <<lossv, trainv>>

\* lines 339-345: after the last cycle the trial's checkpoint is written
SaveCheckpoint ==
    /\ pc = "cycle" /\ cycle >= CYCLES
    /\ saved' = Append(saved, Checkpoint(trial, models))
    /\ trial' = trial + 1
    /\ pc' = "trial"
    /\ uncertainty' = <<>> /\ subset' = <<>> /\ arg' = <<>>
    /\ UNCHANGED <<args, ADDENDUM, SubsetSize, cycle, labeled_set, unlabeled_set,
                   models, schedulers, iters, epoch, num_epochs, phase, error>>
    /\ UNCHANGED <<lossv, trainv>>

Next ==
    \/ TrialInit
    \/ CycleStart
    \/ TrainEpoch
    \/ TrainReturn
    \/ Sample
    \/ Acquire
    \/ SaveCheckpoint

Spec == Init /\ [][Next]_vars

----------------------------------------------------------------------------
(* One call of LossPredLoss on a batch of predicted and target losses *)

Batches0(n) == [1..n -> 0..MaxVal]

InitLoss ==
    /\ CtlIdle /\ TrainIdle
    /\ \E n \in 0..MaxBatchLen : input \in Batches0(n) /\ target \in Batches0(n)
    /\ margin \in 1..MaxMargin
    /\ reduction \in {"mean", "none"}
    /\ loss = [status |-> "pending", value |-> <<>>]

LossCall ==
    /\ loss.status = "pending"
    /\ loss' = LossPredLoss(input, target, margin, reduction)
    /\ UNCHANGED <<input, target, margin, reduction>>
    /\ UNCHANGED <<ctl, trainv>>

NextLoss == LossCall

SpecLoss == InitLoss /\ [][NextLoss]_vars

----------------------------------------------------------------------------
(* train over [s, e) in one call, beside train over [s, m) and then [m, e),   *)
(* each on models, optimizers and schedulers of its own, without a sink       *)

\* a train call entered on the context c
Called(c, start, stop, n) ==
    [ctx |-> [c EXCEPT !.epoch = FirstEpoch(start)],
     num_epochs |-> stop, call |-> n, done |-> FALSE]

FreshCtx ==
    [models |-> NewModels(0, 0), schedulers |-> NewSchedulers, iters |-> 0,
     epoch |-> 0, error |-> None]

InitTrain ==
    /\ CtlIdle /\ LossIdle
    /\ span \in { x \in [s : 0..MaxEpoch, m : 0..MaxEpoch, e : 0..MaxEpoch,
                         epoch_loss : 0..MaxEpoch, size : 1..(BATCH + 1)] :
                    x.s <= x.m /\ x.m <= x.e }
    /\ whole = Called(FreshCtx, span.s, span.e, 1)
    /\ split = Called(FreshCtx, span.s, span.m, 1)

\* lines 228-232 in the single call
WholeEpoch ==
    /\ ~whole.done /\ whole.ctx.epoch < whole.num_epochs
    /\ \E n \in TrainIter(whole.ctx, span.size, span.epoch_loss, None, FALSE) :
         whole' = [whole EXCEPT !.ctx = n]
    /\ UNCHANGED <<span, split>>
    /\ UNCHANGED <<ctl, lossv>>

\* line 246 in the single call
WholeReturn ==
    /\ ~whole.done /\ whole.ctx.epoch >= whole.num_epochs
    /\ whole' = [whole EXCEPT !.done = TRUE]
    /\ UNCHANGED <<span, split>>
    /\ UNCHANGED <<ctl, lossv>>

\* lines 228-232 in either of the two calls
SplitEpoch ==
    /\ ~split.done /\ split.ctx.epoch < split.num_epochs
    /\ \E n \in TrainIter(split.ctx, span.size, span.epoch_loss, None, FALSE) :
         split' = [split EXCEPT !.ctx = n]
    /\ UNCHANGED <<span, whole>>
    /\ UNCHANGED <<ctl, lossv>>

\* line 246: the first call returns and the second is made on the same
\* objects, or the second returns
SplitReturn ==
    /\ ~split.done /\ split.ctx.epoch >= split.num_epochs
    /\ split' = IF split.call = 1
                THEN Called(split.ctx, span.m, span.e, 2)
                ELSE [split EXCEPT !.done = TRUE]
    /\ UNCHANGED <<span, whole>>
    /\ UNCHANGED <<ctl, lossv>>

NextTrain ==
    \/ WholeEpoch
    \/ WholeReturn
    \/ SplitEpoch
    \/ SplitReturn

SpecTrain == InitTrain /\ [][NextTrain]_vars

----------------------------------------------------------------------------
(* Properties *)

IsPartition(lab, unl) ==
    /\ Range(lab) \cap Range(unl) = {}
    /\ Range(lab) \cup Range(unl) = 0..(NUM_TRAIN - 1)
    /\ Cardinality(Range(lab)) = Len(lab)
    /\ Cardinality(Range(unl)) = Len(unl)

\* between cycles: after the split of a trial and after each update of the lists
BetweenCycles == pc = "cycle"

\* C1: between cycles the labeled and the unlabeled list hold every index of
\* range(NUM_TRAIN) exactly once between them, whichever subpool of SUBSET
\* entries the sampler drew from the unlabeled list.
C1_Partition == BetweenCycles => IsPartition(labeled_set, unlabeled_set)

\* C2: after c completed cycles of a trial the labeled set holds
\* INITIALQUERY + c * ADDENDUM distinct indices.
C2_LabeledSize ==
    BetweenCycles => Cardinality(Range(labeled_set)) = INITIALQUERY + cycle * ADDENDUM

\* the injective maps from 1..n into 1..k
Injections(n, k) ==
    { f \in [1..n -> 1..k] : \A i, j \in 1..n : i # j => f[i] # f[j] }

\* the update of the lists has just run on the subpool still in subset
JustAcquired == pc = "cycle" /\ arg # <<>>

\* C3: the entries the update appends to the labeled list are ADDENDUM entries
\* of the subpool, in ascending order of predicted score, and none of the
\* subpool entries left out has a higher score than one of them.  On the scores
\* (1, 9, 5) of the subpool (5, 7, 9) one entry picked is 7 and two are {7, 9}.
C3_TopScores ==
    /\ JustAcquired =>
         LET tail == SliceFrom(labeled_set, Len(labeled_set) - ADDENDUM) IN
         /\ Len(tail) = ADDENDUM
         /\ \E f \in Injections(ADDENDUM, SubsetSize) :
              /\ \A i \in 1..ADDENDUM : tail[i] = subset[f[i]]
              /\ \A i \in 1..(ADDENDUM - 1) : uncertainty[f[i]] <= uncertainty[f[i + 1]]
              /\ \A i \in 1..ADDENDUM : \A q \in 1..SubsetSize :
                   (\A j \in 1..ADDENDUM : f[j] # q) => uncertainty[f[i]] >= uncertainty[q]
    /\ pc = "trial" =>
         \A a \in ArgSort(<<1, 9, 5>>) :
             /\ Picked(<<5, 7, 9>>, a, 1) = <<7>>
             /\ Range(Picked(<<5, 7, 9>>, a, 2)) = {7, 9}

C3_Witness ==
    /\ JustAcquired
    /\ ADDENDUM = 2 /\ SubsetSize = 3
    /\ \E i, j \in 1..SubsetSize : uncertainty[i] < uncertainty[j]

\* the loss of pair i of a batch of 2B elements, with the sign the parameter
\* tie gives a pair whose target losses are equal
PairLossAs(i, tie) ==
    LET j == Len(input) + 1 - i
        target_diff == target[i] - target[j]
        pred_diff == input[i] - input[j]
        sign == IF target_diff > 0 THEN 1 ELSE IF target_diff < 0 THEN -1 ELSE tie
        l == margin - sign * pred_diff
    IN IF l > 0 THEN l ELSE 0

RECURSIVE SumPairs(_, _)
SumPairs(n, tie) == IF n = 0 THEN 0 ELSE PairLossAs(n, tie) + SumPairs(n - 1, tie)

LossIs(tie) ==
    (loss.status # "pending" /\ Len(input) % 2 = 0 /\ Len(input) > 0) =>
        LET B == Len(input) \div 2 IN
        /\ loss.status = "ok"
        /\ reduction = "none" =>
             /\ Len(loss.value) = B
             /\ \A i \in 1..B : loss.value[i] = PairLossAs(i, tie)
        /\ reduction = "mean" => loss.value = <<SumPairs(B, tie), B>>
        /\ LossPredLoss(<<2, 2, 2, 2>>, <<3, 1, 5, 2>>, margin, "mean")
             = [status |-> "ok", value |-> <<2 * margin, 2>>]

\* C4 as stated: on a batch of 2B elements LossPredLoss pairs element i with
\* element 2B-1-i, the loss of a pair is max(0, margin - sign * pred_diff) with
\* sign +1 when target_diff >= 0 and -1 otherwise, and the mean is their sum
\* over B.
C4_TieIsPlus == LossIs(1)

\* C4 as amended: the same, with sign +1 only when target_diff > 0, so that a
\* pair of equal target losses has sign -1.  Targets (3, 1, 5, 2) with
\* predictions (2, 2, 2, 2) give the mean margin.
C4_TieIsMinus == LossIs(-1)

C4_Witness ==
    /\ loss.status = "ok" /\ reduction = "mean" /\ Len(input) = 4
    /\ target[1] = target[4] /\ input[1] # input[4]
    /\ target[2] < target[3] /\ input[2] # input[3]

\* C5: a call of LossPredLoss on a batch of odd size ends in an error and
\* gives no loss.
C5_OddBatchFails ==
    (loss.status # "pending" /\ Len(input) % 2 = 1) =>
        loss.status = "AssertionError" /\ loss.value = <<>>

C5_Witness == loss.status = "AssertionError" /\ Len(input) = 3

\* C6: when the unlabeled list is shorter than SUBSET at scoring time, the
\* error raised ends the cycle loop of the trial, not the run.
C6_ExhaustionEndsTrialOnly == error = "InsufficientPoolError" => pc # "aborted"

\* the epochs range(a, b) as train records them
EpochsOf(a, b, epoch_loss) ==
    [i \in 1..(IF b > a THEN b - a ELSE 0) |-> <<a + i - 1, a + i - 1 > epoch_loss>>]

\* C7: train over [s, m) and then over [m, e) on the same objects leaves the
\* models, the schedulers and the iteration count as one call over [s, e)
\* does: the epochs s..e-1 once each in increasing order, each detached when
\* above the threshold, the loader run once per epoch and both schedulers
\* stepped once per epoch.
C7_SplitEqualsWhole ==
    (whole.done /\ split.done) =>
        /\ split.ctx = whole.ctx
        /\ split.ctx.models.epochs = EpochsOf(span.s, span.e, span.epoch_loss)
        /\ split.ctx.models.steps = (span.e - span.s) * NumBatches(span.size)
        /\ split.ctx.schedulers = [backbone |-> span.e - span.s, module |-> span.e - span.s]

C7_Witness ==
    /\ whole.done /\ split.done
    /\ span.s > 0 /\ span.s < span.m /\ span.m < span.e
    /\ span.epoch_loss = span.m
    /\ span.size > BATCH

\* C8: a failure of the plotting call does not end the run.
C8_SinkFailureIgnored == error = "SinkError" => pc # "aborted"

\* the epochs a cycle's models have been trained on when the first train call
\* has returned, and when the last has
AfterFirstTrain == EpochsOf(0, IF args.middle_pick THEN MILESTONE0 ELSE EPOCH, EPOCHL)
AfterLastTrain ==
    IF args.middle_pick
    THEN EpochsOf(0, MILESTONE0, EPOCHL) \o EpochsOf(MILESTONE0, EPOCH, EPOCHL)
    ELSE EpochsOf(0, EPOCH, EPOCHL)

\* the checkpoint of trial t (counted from 0) is the t+1st file written
CheckpointOf(t) == saved[t + 1]

\* C9: a trial's checkpoint is written once, after its last cycle and before
\* the next trial starts, under a path no other trial uses, and holds the
\* trial number and the models of the trial's last cycle, trained to the end.
C9_CheckpointPerTrial ==
    /\ Len(saved) = trial
    /\ \A t \in 0..(Len(saved) - 1) :
         /\ CheckpointOf(t).path = CheckpointPath(t)
         /\ \A u \in 0..(Len(saved) - 1) : u # t => CheckpointOf(u).path # CheckpointOf(t).path
         /\ CheckpointOf(t).trial = t + 1
         /\ CheckpointOf(t).state_dict_backbone
              = [trial |-> t, cycle |-> CYCLES - 1,
                 steps |-> CheckpointOf(t).state_dict_backbone.steps,
                 epochs |-> AfterLastTrain]
         /\ CheckpointOf(t).state_dict_module = CheckpointOf(t).state_dict_backbone

C9_Witness == Len(saved) = TRIALS /\ TRIALS > 1 /\ pc = "trial"

\* the second train call of a cycle in middle_pick mode is running
SecondPhase == args.middle_pick /\ pc = "train" /\ phase = 2

\* C10 as stated: in middle_pick mode the ADDENDUM indices of the cycle are
\* already in the labeled list while the second train call runs.
C10_AcquiredBeforeSecondPhase ==
    SecondPhase => Len(labeled_set) = INITIALQUERY + (cycle + 1) * ADDENDUM

\* C10 as amended: in middle_pick mode the subpool is scored between the epochs
\* [0, milestone) and the epochs [milestone, EPOCH), and the second train call
\* runs on the labeled list the first ran on; in both modes the lists are
\* updated only after all the epochs of the cycle, and in single-phase mode
\* the scoring too.
C10_ScoreMidAcquireLast ==
    /\ pc = "sample" => models.epochs = AfterFirstTrain
    /\ SecondPhase =>
         /\ Len(subset) = SubsetSize /\ arg = <<>>
         /\ SubSeq(models.epochs, 1, Len(AfterFirstTrain)) = AfterFirstTrain
         /\ Len(labeled_set) = INITIALQUERY + cycle * ADDENDUM
    /\ pc = "acquire" =>
         /\ Len(subset) = SubsetSize
         /\ models.epochs = AfterLastTrain
         /\ Len(labeled_set) = INITIALQUERY + cycle * ADDENDUM
    /\ JustAcquired =>
         /\ models.epochs = AfterLastTrain
         /\ Len(labeled_set) = INITIALQUERY + cycle * ADDENDUM

C10_Witness ==
    /\ args.middle_pick /\ JustAcquired /\ cycle = 1
    /\ MILESTONE0 > 0 /\ MILESTONE0 < EPOCH

====
